---- MODULE Spec2Model ----
(***************************************************************************)
(* Model of backend/server.py: the Google-Sheets -> MongoDB cache of the   *)
(* Loco Data Summary API.  One asyncio event loop runs the startup hook    *)
(* and then the request handlers; every `await` of a store operation is a  *)
(* suspension point, so each store operation is one atomic step and the    *)
(* steps of concurrent handlers interleave.                                *)
(*                                                                         *)
(* Text is a sequence of one-character strings, so that strip() and        *)
(* replace() are modelled by what they do to the characters.               *)
(* ModificationDetail, which server.py uses and does not define, is taken  *)
(* to be a field and a value, as LocoDetail is.                            *)
(***************************************************************************)
EXTENDS Integers, Sequences, FiniteSets, TLC

(***************************************************************************)
(* Bounds                                                                  *)
(***************************************************************************)
MaxRefreshes == 3     \* refresh_all_data invocations in one behaviour
MaxTime == 7          \* the clock counts hours 0..MaxTime
MaxLen == 4           \* longest text drawn for the identifier functions

(***************************************************************************)
(* Program constants                                                       *)
(***************************************************************************)
REFRESH_INTERVAL_HOURS == 6
ToListCap == 1000
SearchLimit == 20

NoTime == -1          \* last_refresh_time = None

(***************************************************************************)
(* Text                                                                    *)
(***************************************************************************)
Alphabet == {"0", "1", ".", " "}

RECURSIVE TextsOfLen(_)
TextsOfLen(n) ==
  IF n = 0 THEN {<<>>}
  ELSE {<<c>> \o s : c \in Alphabet, s \in TextsOfLen(n - 1)}

Texts == UNION {TextsOfLen(n) : n \in 0..MaxLen}

\* str.strip(): drop leading and trailing whitespace
RECURSIVE LStrip(_)
LStrip(s) ==
  IF s = <<>> THEN <<>>
  ELSE IF Head(s) = " " THEN LStrip(Tail(s)) ELSE s

RECURSIVE RStrip(_)
RStrip(s) ==
  IF s = <<>> THEN <<>>
  ELSE IF s[Len(s)] = " " THEN RStrip(SubSeq(s, 1, Len(s) - 1)) ELSE s

Strip(s) == RStrip(LStrip(s))

\* str.replace('.0', ''): every non-overlapping occurrence, left to right
RECURSIVE ReplaceDotZero(_)
ReplaceDotZero(s) ==
  IF Len(s) < 2 THEN s
  ELSE IF s[1] = "." /\ s[2] = "0" THEN ReplaceDotZero(SubSeq(s, 3, Len(s)))
  ELSE <<s[1]>> \o ReplaceDotZero(Tail(s))

\* the identifier as the four ingestion sites and the lookup site compute it
NormLoco(raw) == Strip(raw)
NormSchedule(raw) == Strip(ReplaceDotZero(raw))
NormFailure(raw) == Strip(ReplaceDotZero(raw))
NormModifications(raw) == Strip(raw)
NormLookup(raw) == Strip(raw)

(***************************************************************************)
(* The remote source: four sheets of rows, a row maps column to text       *)
(***************************************************************************)
SHEET_NAMES == <<"loco_list", "loco_schedules", "traction_failures", "wag7_modifications">>
DataSets == {SHEET_NAMES[i] : i \in 1..4}

Collections == {"loco_data", "schedule_data", "failure_data", "modifications_data"}

DestOf(ds) ==
  CASE ds = "loco_list" -> "loco_data"
    [] ds = "loco_schedules" -> "schedule_data"
    [] ds = "traction_failures" -> "failure_data"
    [] ds = "wag7_modifications" -> "modifications_data"

\* the column holding the identifier, spelled as the ingestion code spells it
IdColumn(ds) ==
  CASE ds = "loco_list" -> "Loco No."
    [] ds = "loco_schedules" -> "Loco No. "
    [] ds = "traction_failures" -> "LOCO No. "
    [] ds = "wag7_modifications" -> "Loco No."

IngestKey(ds, raw) ==
  CASE ds = "loco_list" -> NormLoco(raw)
    [] ds = "loco_schedules" -> NormSchedule(raw)
    [] ds = "traction_failures" -> NormFailure(raw)
    [] ds = "wag7_modifications" -> NormModifications(raw)

\* header rows, in sheet order
LocoCols == <<"Loco No.", "Type", "Zone">>
ScheduleCols == <<"Loco No. ", "Incoming Date ", "Sch ", "Outgoing Date ">>
FailureCols == <<"Date Failed ", "ICMS/ Message ", "LOCO No. ", "MU with ", "Div ",
                 "Rly ", "Brief Message ", "Cause of Failure ", "Component ", "System ">>
ModCols == <<"Loco No.", "Type", "Mod1">>

ColSet(cols) == {cols[i] : i \in 1..Len(cols)}

LocoRow(id, zone) == [c \in ColSet(LocoCols) |->
  IF c = "Loco No." THEN id ELSE IF c = "Type" THEN <<"1">> ELSE zone]

ScheduleRow(id, inc) == [c \in ColSet(ScheduleCols) |->
  IF c = "Loco No. " THEN id ELSE IF c = "Incoming Date " THEN inc ELSE <<>>]

FailureRow(id, msg) == [c \in ColSet(FailureCols) |->
  IF c = "LOCO No. " THEN id ELSE IF c = "Brief Message " THEN msg ELSE <<>>]

ModRow(id, m) == [c \in ColSet(ModCols) |->
  IF c = "Loco No." THEN id ELSE IF c = "Type" THEN <<"1">> ELSE m]

Sheet(l, s, f, m) ==
  [ds \in DataSets |->
     CASE ds = "loco_list" -> l
       [] ds = "loco_schedules" -> s
       [] ds = "traction_failures" -> f
       [] ds = "wag7_modifications" -> m]

\* the remote documents the model draws from
Sources ==
  { \* an ordinary document: one loco known to all four sheets
    Sheet(<<LocoRow(<<"1">>, <<"0">>)>>,
          <<ScheduleRow(<<"1", ".", "0">>, <<"0">>), ScheduleRow(<<"1">>, <<>>)>>,
          <<FailureRow(<<"1", " ">>, <<"1">>)>>,
          <<ModRow(<<"1">>, <<"1">>)>>),
    \* identifiers that kept the float artifact, a loco row and a modifications
    \* row with no other field filled in, and an empty failures sheet
    Sheet(<<LocoRow(<<"1", ".", "0">>, <<"1">>), LocoRow(<<" ", "0">>, <<" ">>)>>,
          <<ScheduleRow(<<"1", ".", "0">>, <<>>)>>,
          <<>>,
          <<ModRow(<<" ", "0">>, <<>>)>>) }

\* identifiers and partial strings the requests carry
QueryIds == {<<"1">>, <<"1", ".", "0">>, <<" ", "0">>}
Partials == {<<"1">>, <<".">>}

(***************************************************************************)
(* State                                                                   *)
(***************************************************************************)
VARIABLES
  sheet,              \* the remote document
  db,                 \* the four MongoDB collections, each a sequence of documents
  last_refresh_time,  \* the module global
  now,                \* datetime.utcnow(), in hours
  pc,                 \* where each task is: the store operation it awaits
  kind,               \* which handler each task runs
  arg,                \* the path parameter of the request, once the handler uses it
  loc,                \* the locals of the refresh_all_data invocation of a task
  chk,                \* what check_and_refresh_data saw and did (history)
  acc,                \* the locals of the reading handlers
  out,                \* what the last step returned to a caller, if anything
  nInv,               \* refresh_all_data invocations started so far
  hist,               \* collection sizes after the latest uninterrupted successes
  nx, ny, nds, nstage \* the text under test of the identifier functions

vars == <<sheet, db, last_refresh_time, now, pc, kind, arg, loc, chk,
          acc, out, nInv, hist, nx, ny, nds, nstage>>

normVars == <<nx, ny, nds, nstage>>

StartupTask == 0
Requests == {1, 2}        \* two request handlers can be in flight together
Tasks == {StartupTask} \cup Requests

NoResp == [code |-> 0]                 \* nothing was returned
Pc(op, on) == [op |-> op, on |-> on]
Idle == Pc("idle", "")
Done == Pc("done", "")

EmptyDb == [c \in Collections |-> <<>>]

NoBuilt == [ds \in DataSets |-> <<>>]
NoLoc == [built |-> NoBuilt, cleared |-> {}, stored |-> {}, solo |-> TRUE]
NoChk == [state |-> "none", lrt |-> NoTime, at |-> 0]
NoAcc == [details |-> <<>>, schedules |-> <<>>, failures |-> <<>>, modifications |-> <<>>,
          held |-> {}, good |-> {}, counts |-> [c \in Collections |-> 0], epoch |-> 0]
NoOut == [task |-> 0, kind |-> "none", arg |-> <<>>, ended |-> "", at |-> Idle,
          rf |-> NoLoc, chk |-> NoChk, held |-> {}, good |-> {}, epoch |-> 0,
          resp |-> NoResp]

Refreshing(t) == pc[t].op \in {"delete_many", "fetch", "insert_many", "finish"}
InFlight == {t \in Tasks : Refreshing(t)}

(***************************************************************************)
(* refresh_all_data                                                        *)
(***************************************************************************)
\* a refresh that starts while others run is interleaved with all of them
Overlapped(l, t) ==
  [u \in Tasks |-> IF u # t /\ Refreshing(u) THEN [l[u] EXCEPT !.solo = FALSE] ELSE l[u]]

\* a call of refresh_all_data by task t: the first delete_many is issued
CallRefresh(t) ==
  /\ nInv < MaxRefreshes
  /\ nInv' = nInv + 1
  /\ loc' = Overlapped([loc EXCEPT ![t] = [NoLoc EXCEPT !.solo = InFlight = {}]], t)
  /\ pc' = [pc EXCEPT ![t] = Pc("delete_many", "loco_data")]

\* the exception swallowed on its way to the caller
ErrorResponseSwallowed(t) == NoResp

\* the except clause re-raises; what the caller of refresh_all_data makes of it:
\* startup_event logs it, manual_refresh turns it into its own 500, the reading
\* handlers let it through
ErrorResponse(t) ==
  CASE kind[t] = "startup" -> NoResp
    [] kind[t] = "refresh" -> [code |-> 500, detail |-> "Refresh failed"]
    [] pc[t].op = "fetch" -> [code |-> 500, detail |-> "Failed to fetch", sheet |-> pc[t].on]
    [] OTHER -> [code |-> 500, detail |-> "Internal Server Error"]

\* a task whose handler has returned: a request slot is free again
Left(t) == IF t = StartupTask THEN Done ELSE Idle

Leave(t) ==
  /\ pc' = [pc EXCEPT ![t] = Left(t)]
  /\ kind' = [kind EXCEPT ![t] = IF t = StartupTask THEN @ ELSE "none"]
  /\ arg' = [arg EXCEPT ![t] = <<>>]
  /\ chk' = [chk EXCEPT ![t] = NoChk]
  /\ acc' = [acc EXCEPT ![t] = NoAcc]

Returned(t, ended, r) ==
  [task |-> t, kind |-> kind[t], arg |-> arg[t], ended |-> ended, at |-> pc[t],
   rf |-> loc[t], chk |-> chk[t], held |-> acc[t].held, good |-> acc[t].good,
   epoch |-> acc[t].epoch, resp |-> r]

\* a failure path that stamps the refresh time all the same
RefreshFailsStamped(t) ==
  /\ Leave(t)
  /\ out' = Returned(t, "failed", ErrorResponse(t))
  /\ loc' = [loc EXCEPT ![t] = NoLoc]
  /\ hist' = <<>>
  /\ last_refresh_time' = now

\* a failure path that resets the refresh time to None
RefreshFailsResets(t) ==
  /\ Leave(t)
  /\ out' = Returned(t, "failed", ErrorResponse(t))
  /\ loc' = [loc EXCEPT ![t] = NoLoc]
  /\ hist' = <<>>
  /\ last_refresh_time' = NoTime

\* a failure path on which a reading handler goes on to serve what the cache holds
RefreshFailsServesCache(t) ==
  /\ IF kind[t] \in {"summary", "search"}
     THEN /\ pc' = [pc EXCEPT ![t] = IF kind[t] = "summary" THEN Pc("find_one", "loco_data")
                                     ELSE Pc("aggregate", "loco_data")]
          /\ UNCHANGED <<kind, arg, chk, acc>>
     ELSE Leave(t)
  /\ out' = Returned(t, "failed", ErrorResponse(t))
  /\ loc' = [loc EXCEPT ![t] = NoLoc]
  /\ hist' = <<>>
  /\ UNCHANGED last_refresh_time

RefreshFails(t) ==
  /\ Leave(t)
  /\ out' = Returned(t, "failed", ErrorResponse(t))
  /\ loc' = [loc EXCEPT ![t] = NoLoc]
  /\ hist' = <<>>
  /\ UNCHANGED last_refresh_time

\* only the first collection is cleared before the fetches start
AfterDeleteFirstOnly(c) == Pc("fetch", "loco_list")

\* the failure collection is not cleared
AfterDeleteSkipsFailures(c) ==
  CASE c = "loco_data" -> Pc("delete_many", "schedule_data")
    [] OTHER -> Pc("fetch", "loco_list")

\* lines 102-104: the three delete_many calls, before anything is fetched
AfterDelete(c) ==
  CASE c = "loco_data" -> Pc("delete_many", "schedule_data")
    [] c = "schedule_data" -> Pc("delete_many", "failure_data")
    [] c = "failure_data" -> Pc("fetch", "loco_list")

DeleteMany(t, c) ==
  /\ pc[t] = Pc("delete_many", c)
  /\ \/ /\ db' = [db EXCEPT ![c] = <<>>]
        /\ loc' = [loc EXCEPT ![t].cleared = @ \cup {c}]
        /\ pc' = [pc EXCEPT ![t] = AfterDelete(c)]
        /\ out' = NoOut
        /\ UNCHANGED <<last_refresh_time, kind, arg, chk, acc, hist>>
     \/ /\ UNCHANGED db             \* the store raises
        /\ RefreshFails(t)
  /\ UNCHANGED <<sheet, now, nInv, normVars>>

\* the record built from one row (updated_at, which nothing reads, is left out)
Record(ds, row) ==
  [collection |-> DestOf(ds),
   loco_no |-> IngestKey(ds, row[IdColumn(ds)]),
   data |-> row]

RecordsOf(ds, rows) == [i \in 1..Len(rows) |-> Record(ds, rows[i])]

\* the failures sheet taken before the schedules sheet
AfterStoreFailuresFirst(ds) ==
  CASE ds = "loco_list" -> Pc("fetch", "traction_failures")
    [] ds = "traction_failures" -> Pc("fetch", "loco_schedules")
    [] ds = "loco_schedules" -> Pc("fetch", "wag7_modifications")
    [] ds = "wag7_modifications" -> Pc("finish", "")

AfterStore(ds) ==
  CASE ds = "loco_list" -> Pc("fetch", "loco_schedules")
    [] ds = "loco_schedules" -> Pc("fetch", "traction_failures")
    [] ds = "traction_failures" -> Pc("fetch", "wag7_modifications")
    [] ds = "wag7_modifications" -> Pc("finish", "")

\* fetch_sheet_data and the loop that builds the records; insert_many is
\* awaited only for a non-empty list
FetchSheet(t, ds) ==
  /\ pc[t] = Pc("fetch", ds)
  /\ \/ LET recs == RecordsOf(ds, sheet[ds]) IN
        /\ loc' = [loc EXCEPT ![t].built[ds] = recs,
                              ![t].stored = IF recs = <<>> THEN @ \cup {ds} ELSE @]
        /\ pc' = [pc EXCEPT ![t] = IF recs # <<>> THEN Pc("insert_many", ds)
                                   ELSE AfterStore(ds)]
        /\ out' = NoOut
        /\ UNCHANGED <<last_refresh_time, kind, arg, chk, acc, hist>>
     \/ RefreshFails(t)             \* HTTPException(500) from fetch_sheet_data
  /\ UNCHANGED <<sheet, db, now, nInv, normVars>>

InsertMany(t, ds) ==
  /\ pc[t] = Pc("insert_many", ds)
  /\ \/ /\ db' = [db EXCEPT ![DestOf(ds)] = @ \o loc[t].built[ds]]
        /\ loc' = [loc EXCEPT ![t].stored = @ \cup {ds}]
        /\ pc' = [pc EXCEPT ![t] = AfterStore(ds)]
        /\ out' = NoOut
        /\ UNCHANGED <<last_refresh_time, kind, arg, chk, acc, hist>>
     \/ /\ UNCHANGED db             \* the store raises
        /\ RefreshFails(t)
  /\ UNCHANGED <<sheet, now, nInv, normVars>>

\* lines 173-177: the dictionary refresh_all_data returns
ReturnedCounts(l) ==
  [c \in {"loco_data", "schedule_data", "failure_data"} |->
     CASE c = "loco_data" -> Len(l.built["loco_list"])
       [] c = "schedule_data" -> Len(l.built["loco_schedules"])
       [] c = "failure_data" -> Len(l.built["traction_failures"])]

Sizes == [c \in Collections |-> Len(db[c])]

\* sizes after the latest successes that ran one after the other, the last two
Streak(t) ==
  IF ~loc[t].solo THEN <<>>
  ELSE IF hist = <<>> THEN <<Sizes>> ELSE <<hist[Len(hist)], Sizes>>

\* line 169 and the return, reached after the last insert_many; a reading
\* handler goes on to its first read, the others return
Finish(t) ==
  /\ pc[t] = Pc("finish", "")
  /\ last_refresh_time' = now
  /\ hist' = Streak(t)
  /\ loc' = [loc EXCEPT ![t] = NoLoc]
  /\ IF kind[t] \in {"summary", "search"}
     THEN /\ pc' = [pc EXCEPT ![t] = IF kind[t] = "summary" THEN Pc("find_one", "loco_data")
                                     ELSE Pc("aggregate", "loco_data")]
          /\ chk' = [chk EXCEPT ![t].state = "refreshed"]
          /\ out' = Returned(t, "ok", NoResp)
          /\ UNCHANGED <<kind, arg, acc>>
     ELSE /\ Leave(t)
          /\ out' = Returned(t, "ok",
                       IF kind[t] = "refresh"
                       THEN [code |-> 200, counts |-> ReturnedCounts(loc[t]),
                             refreshed_at |-> last_refresh_time']
                       ELSE NoResp)
  /\ UNCHANGED <<sheet, db, now, nInv, normVars>>

(***************************************************************************)
(* startup_event, check_and_refresh_data and the handlers                  *)
(***************************************************************************)
Serving == pc[StartupTask] = Done

\* a request is given the lowest free handler slot
Free(t) == t \in Requests /\ pc[t] = Idle /\ \A u \in Requests : u < t => pc[u] # Idle

\* the comparison with >= in place of >
StaleAtInterval(lrt, t) == lrt = NoTime \/ t - lrt >= REFRESH_INTERVAL_HOURS

\* the test for None left out
StaleOnlyWhenSet(lrt, t) == lrt # NoTime /\ t - lrt > REFRESH_INTERVAL_HOURS

Stale(lrt, t) == lrt = NoTime \/ t - lrt > REFRESH_INTERVAL_HOURS

\* check_and_refresh_data as the first thing a reading handler does
check_and_refresh_data(t, k) ==
  /\ chk' = [chk EXCEPT ![t] = [state |-> IF Stale(last_refresh_time, now)
                                          THEN "called" ELSE "fresh",
                                lrt |-> last_refresh_time, at |-> now]]
  /\ IF Stale(last_refresh_time, now)
     THEN CallRefresh(t)
     ELSE /\ pc' = [pc EXCEPT ![t] = IF k = "summary" THEN Pc("find_one", "loco_data")
                                     ELSE Pc("aggregate", "loco_data")]
          /\ UNCHANGED <<loc, nInv>>

startup_event ==
  /\ pc[StartupTask] = Idle
  /\ kind' = [kind EXCEPT ![StartupTask] = "startup"]
  /\ CallRefresh(StartupTask)
  /\ out' = NoOut
  /\ UNCHANGED <<sheet, db, last_refresh_time, now, arg, chk, acc, hist, normVars>>

get_loco_summary(t) ==
  /\ Serving /\ Free(t)
  /\ kind' = [kind EXCEPT ![t] = "summary"]
  /\ check_and_refresh_data(t, "summary")
  /\ out' = NoOut
  /\ UNCHANGED <<sheet, db, last_refresh_time, now, arg, acc, hist, normVars>>

search_locos(t) ==
  /\ Serving /\ Free(t)
  /\ kind' = [kind EXCEPT ![t] = "search"]
  /\ check_and_refresh_data(t, "search")
  /\ out' = NoOut
  /\ UNCHANGED <<sheet, db, last_refresh_time, now, arg, acc, hist, normVars>>

manual_refresh(t) ==
  /\ Serving /\ Free(t)
  /\ kind' = [kind EXCEPT ![t] = "refresh"]
  /\ CallRefresh(t)
  /\ out' = NoOut
  /\ UNCHANGED <<sheet, db, last_refresh_time, now, arg, chk, acc, hist, normVars>>

\* the epoch tells whether a refresh ran while the counts were taken
get_refresh_status(t) ==
  /\ Serving /\ Free(t)
  /\ kind' = [kind EXCEPT ![t] = "status"]
  /\ pc' = [pc EXCEPT ![t] = Pc("count_documents", "loco_data")]
  /\ acc' = [acc EXCEPT ![t].epoch = IF InFlight = {} THEN nInv ELSE -1]
  /\ out' = NoOut
  /\ UNCHANGED <<sheet, db, last_refresh_time, now, arg, loc, chk, nInv, hist, normVars>>

(***************************************************************************)
(* The reads of get_loco_summary                                           *)
(***************************************************************************)
Absent == <<"None">>                   \* Optional[str] = None
OrNone(s) == IF Strip(s) = <<>> THEN Absent ELSE Strip(s)

Matching(c, key) == {i \in 1..Len(db[c]) : db[c][i].loco_no = key}

\* find_one: a matching document, or nothing (0) when there is none
FindOne(c, key) == IF Matching(c, key) = {} THEN {0} ELSE Matching(c, key)

\* find(...).to_list(n): the matching documents in storage order, at most n
ToList(c, key, n) ==
  LET all == SelectSeq(db[c], LAMBDA r : r.loco_no = key)
  IN  SubSeq(all, 1, IF Len(all) < n THEN Len(all) ELSE n)

\* lines 212-216 and 257-260: the field/value pairs of a document, minus the
\* excluded columns and the values that are empty once stripped
exclude_fields == {"Type", "Loco No."}

Shown(data, col) == col \notin exclude_fields /\ Strip(data[col]) # <<>>

Project(data, cols) ==
  LET keep == SelectSeq(cols, LAMBDA col : Shown(data, col))
  IN  [i \in 1..Len(keep) |-> [field |-> keep[i], value |-> data[keep[i]]]]

LocoSchedule(data) ==
  [incoming_date |-> OrNone(data["Incoming Date "]),
   sch |-> OrNone(data["Sch "]),
   outgoing_date |-> OrNone(data["Outgoing Date "])]

TractionFailure(data) ==
  [date_failed |-> OrNone(data["Date Failed "]),
   icms_message |-> OrNone(data["ICMS/ Message "]),
   loco_no |-> OrNone(data["LOCO No. "]),
   mu_with |-> OrNone(data["MU with "]),
   div |-> OrNone(data["Div "]),
   rly |-> OrNone(data["Rly "]),
   brief_message |-> OrNone(data["Brief Message "]),
   cause_of_failure |-> OrNone(data["Cause of Failure "]),
   component |-> OrNone(data["Component "]),
   system |-> OrNone(data["System "])]

MapSeq(f(_), s) == [i \in 1..Len(s) |-> f(s[i].data)]

\* A handler that has started reading reads on to its response before another
\* handler starts reading.  With two handlers in flight nobody writes while
\* both read, so what each of them observes is the same in either order.
MidRead(u) ==
  pc[u] \in {Pc("find", "schedule_data"), Pc("find", "failure_data"),
             Pc("find_one", "modifications_data"), Pc("count_documents", "schedule_data"),
             Pc("count_documents", "failure_data"), Pc("count_documents", "modifications_data")}

MayRead(t) == \A u \in Requests \ {t} : ~MidRead(u)

\* history: which collections held a document under the trimmed identifier
\* when they were read, and which of the documents read had something to show
Held(t, c, id) ==
  IF \E i \in 1..Len(db[c]) : db[c][i].loco_no = Strip(id)
  THEN acc[t].held \cup {c} ELSE acc[t].held

Filled(data) == \E col \in DOMAIN data : col \notin {"Type", "Loco No."} /\ Strip(data[col]) # <<>>

Good(t, c, i) ==
  IF i # 0 /\ (c \in {"schedule_data", "failure_data"} \/ Filled(db[c][i].data))
  THEN acc[t].good \cup {c} ELSE acc[t].good

AnyOf(c, id) ==
  IF \E i \in 1..Len(db[c]) : db[c][i].loco_no = Strip(id)
  THEN CHOOSE i \in 1..Len(db[c]) : db[c][i].loco_no = Strip(id) ELSE 0

\* line 204 and the first read; the path parameter is drawn where it is first used
FindLocoDetails(t, id) ==
  /\ pc[t] = Pc("find_one", "loco_data") /\ MayRead(t)
  /\ arg' = [arg EXCEPT ![t] = id]
  /\ LET loco_no == NormLookup(id) IN
     \E i \in FindOne("loco_data", loco_no) :
       acc' = [acc EXCEPT ![t].details =
                            IF i = 0 THEN <<>> ELSE Project(db["loco_data"][i].data, LocoCols),
                          ![t].held = Held(t, "loco_data", id),
                          ![t].good = Good(t, "loco_data", i)]
  /\ pc' = [pc EXCEPT ![t] = Pc("find", "schedule_data")]
  /\ out' = NoOut
  /\ UNCHANGED <<sheet, db, last_refresh_time, now, kind, loc, chk, nInv, hist, normVars>>

FindSchedules(t) ==
  /\ pc[t] = Pc("find", "schedule_data")
  /\ LET loco_no == NormLookup(arg[t]) IN
     acc' = [acc EXCEPT ![t].schedules =
                          MapSeq(LocoSchedule, ToList("schedule_data", loco_no, ToListCap)),
                        ![t].held = Held(t, "schedule_data", arg[t]),
                        ![t].good = Good(t, "schedule_data", AnyOf("schedule_data", arg[t]))]
  /\ pc' = [pc EXCEPT ![t] = Pc("find", "failure_data")]
  /\ out' = NoOut
  /\ UNCHANGED <<sheet, db, last_refresh_time, now, kind, arg, loc, chk, nInv, hist,
                 normVars>>

FindFailures(t) ==
  /\ pc[t] = Pc("find", "failure_data")
  /\ LET loco_no == NormLookup(arg[t]) IN
     acc' = [acc EXCEPT ![t].failures =
                          MapSeq(TractionFailure, ToList("failure_data", loco_no, ToListCap)),
                        ![t].held = Held(t, "failure_data", arg[t]),
                        ![t].good = Good(t, "failure_data", AnyOf("failure_data", arg[t]))]
  /\ pc' = [pc EXCEPT ![t] = Pc("find_one", "modifications_data")]
  /\ out' = NoOut
  /\ UNCHANGED <<sheet, db, last_refresh_time, now, kind, arg, loc, chk, nInv, hist,
                 normVars>>

Summary(loco_no, a) ==
  [code |-> 200, loco_no |-> loco_no, details |-> a.details,
   schedules |-> a.schedules, failures |-> a.failures,
   modifications |-> a.modifications,
   last_updated |-> IF last_refresh_time # NoTime THEN last_refresh_time ELSE now]

\* the 404 test as it was before the modifications were added to it
SummaryResponseNoMods(loco_no, a) ==
  IF a.details = <<>> /\ a.schedules = <<>> /\ a.failures = <<>>
  THEN [code |-> 404, loco_no |-> loco_no]
  ELSE Summary(loco_no, a)

\* the 404 test left out
SummaryResponseNoCheck(loco_no, a) == Summary(loco_no, a)

\* lines 263-274: 404 when the four projections are all empty
SummaryResponse(loco_no, a) ==
  IF a.details = <<>> /\ a.schedules = <<>> /\ a.failures = <<>> /\ a.modifications = <<>>
  THEN [code |-> 404, loco_no |-> loco_no]
  ELSE Summary(loco_no, a)

\* the last read; the response is built without a further await
FindModifications(t) ==
  /\ pc[t] = Pc("find_one", "modifications_data")
  /\ LET loco_no == NormLookup(arg[t]) IN
     \E i \in FindOne("modifications_data", loco_no) :
       LET a == [acc[t] EXCEPT !.modifications =
                    IF i = 0 THEN <<>> ELSE Project(db["modifications_data"][i].data, ModCols),
                               !.held = Held(t, "modifications_data", arg[t]),
                               !.good = Good(t, "modifications_data", i)]
       IN  out' = [Returned(t, "", SummaryResponse(loco_no, a))
                     EXCEPT !.held = a.held, !.good = a.good]
  /\ Leave(t)
  /\ UNCHANGED <<sheet, db, last_refresh_time, now, loc, nInv, hist, normVars>>

(***************************************************************************)
(* get_refresh_status: four counts, then the response                      *)
(***************************************************************************)
AfterCount(c) ==
  CASE c = "loco_data" -> Pc("count_documents", "schedule_data")
    [] c = "schedule_data" -> Pc("count_documents", "failure_data")
    [] c = "failure_data" -> Pc("count_documents", "modifications_data")

\* the state reported without looking at last_refresh_time
StatusResponseAlwaysActive(counts) ==
  [code |-> 200,
   status |-> "active",
   last_refresh |-> last_refresh_time,
   next_refresh |-> last_refresh_time + REFRESH_INTERVAL_HOURS,
   records_count |-> counts]

StatusResponse(counts) ==
  [code |-> 200,
   status |-> IF last_refresh_time # NoTime THEN "active" ELSE "pending",
   last_refresh |-> last_refresh_time,
   next_refresh |-> IF last_refresh_time # NoTime
                    THEN last_refresh_time + REFRESH_INTERVAL_HOURS ELSE NoTime,
   records_count |-> counts]

CountDocuments(t, c) ==
  /\ pc[t] = Pc("count_documents", c)
  /\ c = "loco_data" => MayRead(t)
  /\ LET counts == [acc[t].counts EXCEPT ![c] = Len(db[c])] IN
     IF c = "modifications_data"
     THEN /\ out' = Returned(t, "", StatusResponse(counts))
          /\ Leave(t)
     ELSE /\ acc' = [acc EXCEPT ![t].counts = counts]
          /\ pc' = [pc EXCEPT ![t] = AfterCount(c)]
          /\ out' = NoOut
          /\ UNCHANGED <<kind, arg, chk>>
  /\ UNCHANGED <<sheet, db, last_refresh_time, now, loc, nInv, hist, normVars>>

(***************************************************************************)
(* search_locos: the aggregation pipeline                                  *)
(***************************************************************************)
\* the regular expression .*p.* : a '.' of p stands for any character
MatchAt(p, s, k) == \A j \in 1..Len(p) : p[j] = "." \/ p[j] = s[k + j]
RegexMatch(p, s) == \E k \in 0..(Len(s) - Len(p)) : MatchAt(p, s, k)

Rank(ch) == CASE ch = " " -> 32 [] ch = "." -> 46 [] ch = "0" -> 48 [] ch = "1" -> 49

RECURSIVE TextLess(_, _)
TextLess(a, b) ==
  IF b = <<>> THEN FALSE
  ELSE IF a = <<>> THEN TRUE
  ELSE IF Rank(Head(a)) # Rank(Head(b)) THEN Rank(Head(a)) < Rank(Head(b))
  ELSE TextLess(Tail(a), Tail(b))

RECURSIVE SortAsc(_)
SortAsc(S) ==
  IF S = {} THEN <<>>
  ELSE LET m == CHOOSE x \in S : \A y \in S \ {x} : TextLess(x, y)
       IN  <<m>> \o SortAsc(S \ {m})

Limit(s, n) == SubSeq(s, 1, IF Len(s) < n THEN Len(s) ELSE n)

Aggregate(p) ==
  LET matched == {db["loco_data"][i].loco_no : i \in
                    {j \in 1..Len(db["loco_data"]) : RegexMatch(p, db["loco_data"][j].loco_no)}}
  IN  Limit(SortAsc(matched), SearchLimit)

Suggestions(p) == SelectSeq(Aggregate(p), LAMBDA x : Strip(x) # <<>>)

SearchAggregate(t, p) ==
  /\ pc[t] = Pc("aggregate", "loco_data") /\ MayRead(t)
  /\ out' = [Returned(t, "", [code |-> 200, suggestions |-> Suggestions(p)])
               EXCEPT !.arg = p]
  /\ Leave(t)
  /\ UNCHANGED <<sheet, db, last_refresh_time, now, loc, nInv, hist, normVars>>

(***************************************************************************)
(* The environment                                                         *)
(***************************************************************************)
\* an hour passes
Tick ==
  /\ now < MaxTime
  /\ now' = now + 1
  /\ out' = NoOut
  /\ UNCHANGED <<sheet, db, last_refresh_time, pc, kind, arg, loc, chk, acc, nInv,
                 hist, normVars>>

NormIdle == nx = <<>> /\ ny = <<>> /\ nds = "" /\ nstage = "off"

Init ==
  /\ sheet \in Sources
  /\ db = EmptyDb
  /\ last_refresh_time = NoTime
  /\ now = 0
  /\ pc = [t \in Tasks |-> Idle]
  /\ kind = [t \in Tasks |-> "none"]
  /\ arg = [t \in Tasks |-> <<>>]
  /\ loc = [t \in Tasks |-> NoLoc]
  /\ chk = [t \in Tasks |-> NoChk]
  /\ acc = [t \in Tasks |-> NoAcc]
  /\ out = NoOut
  /\ nInv = 0
  /\ hist = <<>>
  /\ NormIdle

\* the steps of the startup hook and of the handlers in the slots R
Step(R) ==
  \/ startup_event
  \/ \E t \in R \cup {StartupTask}, c \in Collections : DeleteMany(t, c)
  \/ \E t \in R \cup {StartupTask}, ds \in DataSets : FetchSheet(t, ds)
  \/ \E t \in R \cup {StartupTask}, ds \in DataSets : InsertMany(t, ds)
  \/ \E t \in R \cup {StartupTask} : Finish(t)
  \/ \E t \in R : get_loco_summary(t)
  \/ \E t \in R : search_locos(t)
  \/ \E t \in R : manual_refresh(t)
  \/ \E t \in R : get_refresh_status(t)
  \/ \E t \in R, id \in QueryIds : FindLocoDetails(t, id)
  \/ \E t \in R : FindSchedules(t)
  \/ \E t \in R : FindFailures(t)
  \/ \E t \in R : FindModifications(t)
  \/ \E t \in R, c \in Collections : CountDocuments(t, c)
  \/ \E t \in R, p \in Partials : SearchAggregate(t, p)

\* the handlers of concurrent requests, interleaved at their awaits, within
\* one hour of the clock
Next == Step(Requests)

Spec == Init /\ [][Next]_vars

ServingVars == <<sheet, db, last_refresh_time, now, pc, kind, arg, loc, chk, acc, out,
                 nInv, hist>>

\* the handlers of requests that arrive one after the other, over the hours
NextClock == Step({1}) \/ Tick

SpecClock == Init /\ [][NextClock]_vars

(***************************************************************************)
(* The identifier functions on their own: a row with raw identifier nx is  *)
(* ingested into data set nds, then looked up by nx, or its stored         *)
(* identifier is put through the ingestion once more.                      *)
(***************************************************************************)
InitNorm ==
  /\ sheet = Sheet(<<>>, <<>>, <<>>, <<>>)
  /\ db = EmptyDb
  /\ last_refresh_time = NoTime
  /\ now = 0
  /\ pc = [t \in Tasks |-> Idle]
  /\ kind = [t \in Tasks |-> "none"]
  /\ arg = [t \in Tasks |-> <<>>]
  /\ loc = [t \in Tasks |-> NoLoc]
  /\ chk = [t \in Tasks |-> NoChk]
  /\ acc = [t \in Tasks |-> NoAcc]
  /\ out = NoOut
  /\ nInv = 0
  /\ hist = <<>>
  /\ nx \in Texts
  /\ ny = <<>>
  /\ nds \in DataSets
  /\ nstage = "raw"

\* the ingestion loop computes the identifier the record is stored under
Ingest ==
  /\ nstage = "raw"
  /\ ny' = IngestKey(nds, nx)
  /\ nstage' = "stored"
  /\ UNCHANGED <<nx, nds, ServingVars>>

\* get_loco_summary(nx): find_one / find match the stored identifier exactly
Lookup ==
  /\ nstage = "stored"
  /\ nstage' = IF NormLookup(nx) = ny THEN "found" ELSE "missing"
  /\ UNCHANGED <<nx, ny, nds, ServingVars>>

\* the stored identifier is ingested again
IngestAgain ==
  /\ nstage = "stored"
  /\ nx' = ny
  /\ ny' = IngestKey(nds, ny)
  /\ nstage' = "again"
  /\ UNCHANGED <<nds, ServingVars>>

NextNorm == Ingest \/ Lookup \/ IngestAgain

SpecNorm == InitNorm /\ [][NextNorm]_vars

TypeOK == now \in 0..MaxTime /\ nInv \in 0..MaxRefreshes

(***************************************************************************)
(* The claims                                                              *)
(***************************************************************************)
Index(ds) == CHOOSE i \in 1..4 : SHEET_NAMES[i] = ds
FromOn(ds) == {d \in DataSets : Index(d) >= Index(ds)}
ReadOps == {"find_one", "find", "aggregate"}
Answered == out.kind = "summary" /\ out.resp.code \in {200, 404}

\* C1: last_refresh_time changes only in the step in which a refresh_all_data
\* invocation that has fetched and stored all four data sets returns; so it is
\* unset until the first such step, and no step of a failing invocation, the
\* failing step included, changes it.
C1_SetOnlyOnSuccess ==
  [][ /\ last_refresh_time' # last_refresh_time =>
           \E t \in Tasks : /\ pc[t] = Pc("finish", "")
                             /\ loc[t].stored = DataSets
                             /\ out'.task = t /\ out'.ended = "ok"
                             /\ last_refresh_time' = now
      /\ out'.ended = "failed" => last_refresh_time' = last_refresh_time ]_vars

\* a refresh fails, having cleared collections, after an earlier one succeeded
C1_Witness ==
  out.ended = "failed" /\ out.rf.cleared # {} /\ last_refresh_time # NoTime

\* C2 as claimed: when a fetch fails, this invocation has cleared neither the
\* collection of the failing data set nor that of any later one.
C2_NotClearedOnFetchFailure ==
  (out.ended = "failed" /\ out.at.op = "fetch") =>
     \A ds \in FromOn(out.at.on) : DestOf(ds) \notin out.rf.cleared

\* C2 amended: when a fetch fails the refresh aborts with an error (a 500 for a
\* request); the invocation has by then cleared the loco, schedule and failure
\* collections and not the modifications collection, and it has stored nothing
\* of the failing data set or of any later one.
C2_ClearedBeforeFetch ==
  (out.ended = "failed" /\ out.at.op = "fetch") =>
     /\ out.rf.cleared = {"loco_data", "schedule_data", "failure_data"}
     /\ \A ds \in FromOn(out.at.on) : ds \notin out.rf.stored /\ out.rf.built[ds] = <<>>
     /\ out.task \in Requests => out.resp.code = 500

\* the fetch of the schedules fails in a manual refresh after a successful one
C2_Witness ==
  /\ out.ended = "failed" /\ out.at = Pc("fetch", "loco_schedules")
  /\ out.kind = "refresh" /\ last_refresh_time # NoTime

\* C3: after a refresh_all_data that succeeds with no other refresh interleaved,
\* each of the four collections holds exactly the records this invocation built
\* from the rows it fetched.
C3_FullReplace ==
  (out.ended = "ok" /\ out.rf.solo) =>
     \A ds \in DataSets : db[DestOf(ds)] = out.rf.built[ds]

\* C4: a status request that runs right after two successive uninterrupted
\* successful refreshes, with no refresh during it, reports the collection
\* sizes that held after the first of the two.
C4_SameCounts ==
  (/\ out.kind = "status" /\ out.resp.code = 200
   /\ Len(hist) = 2 /\ InFlight = {} /\ out.epoch = nInv) =>
     out.resp.records_count = hist[1]

\* C5: at most one refresh_all_data invocation is in flight.
C5_OneInFlight == Cardinality(InFlight) <= 1

\* C6: check_and_refresh_data calls refresh_all_data exactly when
\* last_refresh_time is unset or more than 6 hours old, and get_loco_summary and
\* search_locos read the store only after it has returned.
C6_EnsureFresh ==
  /\ \A t \in Requests :
        /\ chk[t].state # "none" =>
             (chk[t].state \in {"called", "refreshed"}
                <=> (chk[t].lrt = NoTime \/ chk[t].at - chk[t].lrt > 6))
        /\ chk[t].state = "called" <=> (kind[t] \in {"summary", "search"} /\ Refreshing(t))
        /\ (kind[t] \in {"summary", "search"} /\ pc[t].op \in ReadOps)
             => chk[t].state \in {"fresh", "refreshed"}
        /\ (kind[t] \in {"summary", "search"} /\ pc[t].op \notin ReadOps)
             => acc[t] = NoAcc
  /\ (out.kind \in {"summary", "search"} /\ out.resp.code \in {200, 404})
       => out.chk.state \in {"fresh", "refreshed"}

\* a reading handler finds the cache exactly 6 hours old and does not refresh
C6_Witness ==
  \E t \in Requests : chk[t].state = "fresh" /\ chk[t].at - chk[t].lrt = 6

\* C7: a record ingested with raw identifier nx into any of the four data sets
\* is found by the lookup of get_loco_summary(nx).
C7_LookupFindsIngested == nstage # "missing"

\* C8: the identifier computed at the ingestion of the Schedules and Failures
\* sheets (remove '.0', then strip) is idempotent.
C8_Idempotent ==
  (nstage = "again" /\ nds \in {"loco_schedules", "traction_failures"}) => ny = nx

C10_NotFound ==
  (Answered /\ out.held = {}) => out.resp.code = 404

\* an unknown identifier is asked for after a successful refresh
C10_Witness ==
  Answered /\ out.held = {} /\ last_refresh_time # NoTime /\ out.resp.code = 404

\* C11: a status response reports "active" exactly when last_refresh_time is
\* set, then with last_refresh equal to it and next_refresh 6 hours later, and
\* "pending" with both absent otherwise; last_refresh_time is the time at which
\* the latest successful refresh_all_data completed; and no step of a status
\* request starts a refresh or changes last_refresh_time or a collection.
C11_Status ==
  [][ /\ (out'.kind = "status" /\ out'.resp.code = 200) =>
           /\ out'.resp.status \in {"active", "pending"}
           /\ out'.resp.status = "active" <=> last_refresh_time' # NoTime
           /\ last_refresh_time' # NoTime =>
                /\ out'.resp.last_refresh = last_refresh_time'
                /\ out'.resp.next_refresh = out'.resp.last_refresh + 6
           /\ last_refresh_time' = NoTime =>
                out'.resp.last_refresh = NoTime /\ out'.resp.next_refresh = NoTime
      /\ out'.ended = "ok" => last_refresh_time' = now
      /\ out'.ended # "ok" => last_refresh_time' = last_refresh_time
      /\ \A t \in Requests :
           (pc'[t] # pc[t] /\ (kind[t] = "status" \/ kind'[t] = "status")) =>
              /\ UNCHANGED <<db, last_refresh_time, nInv, loc>>
              /\ ~Refreshing(t)' ]_vars

\* a status request answers "active" some hours after the refresh completed
C11_Witness ==
  /\ out.kind = "status" /\ out.resp.status = "active"
  /\ out.resp.last_refresh > 0 /\ now > out.resp.last_refresh
  /\ out.resp.next_refresh = out.resp.last_refresh + 6

Before(ds) == {d \in DataSets : Index(d) < Index(ds)}
Cleared == {"loco_data", "schedule_data", "failure_data"}

\* C12 as claimed: an invocation clears the collection of a data set only when
\* it has stored every earlier data set.
C12_ClearAfterEarlierStored ==
  \A t \in Tasks, ds \in DataSets :
     DestOf(ds) \in loc[t].cleared => Before(ds) \subseteq loc[t].stored

\* C12 amended: an invocation first clears the loco, schedule and failure
\* collections, in this order, and then takes the four data sets strictly in
\* the order Loco list, Schedules, Failures, Modifications: it fetches or
\* inserts a data set only when the fetch and insert of every earlier data set
\* has completed and nothing of a later one has been fetched.
C12_FetchInsertInOrder ==
  \A t \in Tasks :
     /\ pc[t].op = "delete_many" =>
           /\ loc[t].cleared = {DestOf(d) : d \in Before(CHOOSE d \in DataSets : DestOf(d) = pc[t].on)}
           /\ loc[t].stored = {} /\ loc[t].built = NoBuilt
     /\ pc[t].op \in {"fetch", "insert_many"} =>
           /\ loc[t].cleared = Cleared
           /\ loc[t].stored = Before(pc[t].on)
           /\ \A d \in DataSets \ Before(pc[t].on) :
                 d # pc[t].on => loc[t].built[d] = <<>>
           /\ pc[t].op = "fetch" => loc[t].built[pc[t].on] = <<>>
     /\ pc[t].op = "finish" => loc[t].cleared = Cleared /\ loc[t].stored = DataSets

\* an invocation is about to insert the failures, the schedules being stored
C12_Witness ==
  \E t \in Tasks : /\ pc[t] = Pc("insert_many", "traction_failures")
                    /\ loc[t].built["loco_schedules"] # <<>>
                    /\ loc[t].stored = {"loco_list", "loco_schedules"}

\* C13: when the refresh of the startup hook fails, the hook returns all the
\* same with last_refresh_time unset, a status request then answers "pending",
\* and a get_loco_summary or search_locos request that starts while
\* last_refresh_time is unset calls refresh_all_data and reads the store only
\* once last_refresh_time is set.
C13_RetryAfterStartupFailure ==
  [][ /\ (out'.task = StartupTask /\ out'.ended = "failed") =>
           /\ pc[StartupTask] # Done /\ pc'[StartupTask] = Done
           /\ last_refresh_time' = NoTime
      /\ (out'.kind = "status" /\ out'.resp.code = 200 /\ last_refresh_time' = NoTime) =>
           out'.resp.status = "pending"
      /\ \A t \in Requests :
           /\ (last_refresh_time = NoTime /\ kind[t] = "none"
                  /\ kind'[t] \in {"summary", "search"}) =>
                /\ pc'[t] = Pc("delete_many", "loco_data")
                /\ nInv' = nInv + 1
           /\ (kind'[t] \in {"summary", "search"} /\ pc'[t].op \in ReadOps) =>
                last_refresh_time' # NoTime ]_vars

\* the startup refresh has failed and a summary request is refreshing
C13_Witness ==
  /\ pc[StartupTask] = Done /\ last_refresh_time = NoTime /\ nInv = 2
  /\ \E t \in Requests : /\ kind[t] = "summary" /\ chk[t].state = "called"
                          /\ pc[t] = Pc("fetch", "loco_list")

\* C14: when the refresh_all_data called by check_and_refresh_data in
\* get_loco_summary or search_locos fails, the request ends with a 500: the
\* handler has read nothing from the store and answers neither a summary nor
\* suggestions.
C14_FailurePropagates ==
  (out.ended = "failed" /\ out.kind \in {"summary", "search"}) =>
     /\ out.resp.code = 500
     /\ DOMAIN out.resp \cap {"details", "schedules", "failures", "modifications",
                               "suggestions"} = {}
     /\ out.held = {} /\ out.good = {}
     /\ pc[out.task] = Idle /\ acc[out.task] = NoAcc /\ kind[out.task] = "none"

\* the refresh of a search request fails while the loco collection holds records
C14_Witness ==
  /\ out.ended = "failed" /\ out.kind = "search" /\ out.resp.code = 500
  /\ db["loco_data"] # <<>>

\* C15: a manual refresh that succeeds answers one count for each of the four
\* collections, each the number of records this invocation built and inserted,
\* and refreshed_at equal to last_refresh_time.
C15_FourCounts ==
  (out.kind = "refresh" /\ out.ended = "ok") =>
     /\ out.resp.code = 200
     /\ out.resp.refreshed_at = last_refresh_time
     /\ DOMAIN out.resp.counts = Collections
     /\ \A ds \in DataSets : out.resp.counts[DestOf(ds)] = Len(out.rf.built[ds])

Range(s) == {s[i] : i \in 1..Len(s)}
HasArtifact(raw) == ReplaceDotZero(raw) # raw

\* C16: with requests served one after the other and a refresh having
\* succeeded, get_loco_summary of an identifier answers 200 with every
\* non-empty field, other than Type and Loco No., of each loco record whose
\* row carries that identifier with the float artifact, and with no Type entry.
C16_ArtifactStripped ==
  (Answered /\ last_refresh_time # NoTime) =>
     \A i \in 1..Len(db["loco_data"]) :
        LET row == db["loco_data"][i].data
            raw == row["Loco No."]
        IN  (HasArtifact(raw) /\ Strip(ReplaceDotZero(raw)) = Strip(out.arg)) =>
               /\ out.resp.code = 200
               /\ \A col \in DOMAIN row \ {"Type", "Loco No."} :
                     Strip(row[col]) # <<>> =>
                        [field |-> col, value |-> row[col]] \in Range(out.resp.details)
               /\ \A d \in Range(out.resp.details) : d.field # "Type"

Contains(p, s) == \E k \in 0..(Len(s) - Len(p)) : SubSeq(s, k + 1, k + Len(p)) = p

\* C17: the suggestions of search_locos(p) are stored loco identifiers that
\* contain p as a substring, strictly ascending (so without duplicates), at
\* most 20, none of them empty once stripped.
C17_SearchSubstring ==
  (out.kind = "search" /\ out.resp.code = 200) =>
     LET r == out.resp.suggestions IN
       /\ Len(r) <= 20
       /\ \A i \in 1..Len(r) :
             /\ r[i] \in {db["loco_data"][j].loco_no : j \in 1..Len(db["loco_data"])}
             /\ Strip(r[i]) # <<>>
             /\ Contains(out.arg, r[i])
       /\ \A i, j \in 1..Len(r) : i < j => TextLess(r[i], r[j])

Rows(c) == Len(sheet[CHOOSE ds \in DataSets : DestOf(ds) = c])

\* C18: when a refresh_all_data invocation completes successfully and leaves
\* none in flight, a collection it cleared holds more records than its sheet
\* has rows only if the invocation overlapped another one, and then at most
\* twice as many; the witness is the interleaving the claim says exists.
C18_DuplicatesOnlyFromOverlap ==
  (out.ended = "ok" /\ InFlight = {}) =>
     \A c \in Cleared :
        /\ Len(db[c]) > Rows(c) => ~out.rf.solo
        /\ Len(db[c]) <= 2 * Rows(c)

\* the startup refresh failed; the refresh of a reading request and a refresh
\* that overlapped it have both inserted all four data sets, the reader's
\* completing last, and a collection both had cleared holds its rows twice
C18_Witness ==
  /\ out.ended = "ok" /\ out.kind \in {"summary", "search"} /\ ~out.rf.solo
  /\ InFlight = {} /\ nInv = 3
  /\ Rows("modifications_data") > 0
  /\ Len(db["modifications_data"]) = 2 * Rows("modifications_data")
  /\ \E c \in Cleared : Rows(c) > 0 /\ Len(db[c]) = 2 * Rows(c)

\* C19: when a refresh_all_data invocation has failed leaving a collection it
\* cleared without the records of its data set, last_refresh_time is unset or
\* more than 6 hours old, so that the next reading request refreshes first.
C19_NotFreshAfterFailedClear ==
  (out.ended = "failed" /\ \E ds \in DataSets : /\ DestOf(ds) \in out.rf.cleared
                                                 /\ ds \notin out.rf.stored) =>
     (last_refresh_time = NoTime \/ now - last_refresh_time > 6)

\* C20: the step in which refresh_all_data fails at the fetch or the insert of
\* data set N changes no collection; the data sets before N have been stored,
\* and their collections hold exactly the records this invocation built when
\* no other invocation was interleaved with it; a request gets the error as a
\* 500.
C20_NoRollback ==
  [][ (out'.ended = "failed" /\ out'.at.op \in {"fetch", "insert_many"}) =>
         /\ db' = db
         /\ \A ds \in Before(out'.at.on) :
               /\ ds \in out'.rf.stored
               /\ out'.rf.solo => db'[DestOf(ds)] = out'.rf.built[ds]
         /\ out'.task \in Requests => out'.resp.code = 500 ]_vars

\* the startup refresh, which found the collections empty, fails at the fetch
\* of the modifications: the three collections keep what it inserted
C20_Witness ==
  /\ out.task = StartupTask /\ out.ended = "failed"
  /\ out.at = Pc("fetch", "wag7_modifications")
  /\ db["loco_data"] # <<>> /\ db["loco_data"] = out.rf.built["loco_list"]
  /\ db["schedule_data"] # <<>> /\ db["schedule_data"] = out.rf.built["loco_schedules"]

\* C21: every summary get_loco_summary answers carries last_updated equal to
\* last_refresh_time as it is when the response is built, and last_refresh_time
\* is then set: it is set whenever a reading handler is past
\* check_and_refresh_data, and once set it is never unset again.
C21_LastUpdated ==
  [][ /\ (out'.kind = "summary" /\ out'.resp.code = 200) =>
           /\ last_refresh_time' # NoTime
           /\ out'.resp.last_updated = last_refresh_time'
      /\ last_refresh_time # NoTime => last_refresh_time' # NoTime
      /\ \A t \in Requests :
           (kind'[t] \in {"summary", "search"} /\ pc'[t].op \in ReadOps) =>
              last_refresh_time' # NoTime ]_vars

\* a summary is answered while a refresh_all_data invocation is in flight
C21_Witness ==
  /\ out.kind = "summary" /\ out.resp.code = 200 /\ InFlight # {}
  /\ out.resp.last_updated = last_refresh_time

====
